---- MODULE Spec2Model ----
(***************************************************************************)
(* Moodify (src/main.py): the keyword sentiment analyzer, the session      *)
(* track cache, the track selection of get_enhanced_tracks_for_mood and    *)
(* the Flask handlers, as one state machine.                               *)
(*                                                                         *)
(* A text is a sequence of atoms.  An atom is a run of word characters     *)
(* (a string matching \w+), or one separator character: a space or a       *)
(* hyphen.  Two adjacent word atoms form one longer word, as in the        *)
(* string they stand for.                                                  *)
(*                                                                         *)
(* A track is identified by its catalog ID, a number in 1..NumTracks; the  *)
(* attributes the code reads (popularity, the fields the display needs)    *)
(* are functions of the ID.                                                *)
(***************************************************************************)
EXTENDS Integers, Sequences, FiniteSets, TLC

VARIABLES
    token,      \* the access token cached in the session: 0 is none, 1 the user's
    session,    \* the session's track-cache entries: key -> (mood -> set of IDs)
    resp,       \* the answer to the last request
    added,      \* history: per mood, the IDs handed to cache_tracks, oldest first
    inText,     \* the text handed to analyze_sentiment
    outMood,    \* what analyze_sentiment returned for it ("" before the call)
    catalog     \* history: what the catalog answered during the last selection
                \* that was observed (see ObservedSelection)

vars == <<token, session, resp, added, inText, outMood, catalog>>

----------------------------------------------------------------------------
(* Bounds *)

\* the longest text analysed on its own, in atoms
MaxAtoms == 3
\* the catalog's tracks are 1..NumTracks
NumTracks == 40
\* the seeds of the random jitter are 0..MaxSeed
MaxSeed == 1

----------------------------------------------------------------------------
(* Helpers on sequences and sets *)

Range(s) == {s[i] : i \in DOMAIN s}

Min(a, b) == IF a < b THEN a ELSE b

\* s[:n]
Take(s, n) == SubSeq(s, 1, Min(n, Len(s)))

\* the elements of s at the indices of keep, in their order in s
AtIndices(s, keep) ==
    LET at == SelectSeq([i \in DOMAIN s |-> i], LAMBDA i : i \in keep)
    IN  [p \in DOMAIN at |-> s[at[p]]] \o <<>>

RECURSIVE Concat(_)
\* the concatenation of a sequence of sequences (list.extend, in order)
Concat(ss) == IF ss = <<>> THEN <<>> ELSE Head(ss) \o Concat(Tail(ss))

----------------------------------------------------------------------------
(* SimpleSentimentAnalyzer *)

\* the five mood labels generate_playlist accepts
Moods == {"happy", "energetic", "chill", "sad", "calm"}

\* the keys of the scores dict, in insertion order
ScoreOrder == <<"happy", "sad", "calm", "energetic", "chill">>

positive_words ==
    {"happy", "joy", "excited", "amazing", "great", "fantastic", "wonderful", "awesome",
     "energetic", "pumped", "motivated", "upbeat", "cheerful", "elated", "euphoric",
     "thrilled", "ecstatic", "delighted", "content", "optimistic", "confident",
     "energized", "vibrant", "lively", "dynamic", "enthusiastic", "passionate"}

negative_words ==
    {"sad", "depressed", "down", "upset", "disappointed", "hurt", "broken", "lonely",
     "melancholy", "blue", "gloomy", "miserable", "heartbroken", "sorrowful",
     "dejected", "despondent", "mournful", "grief", "anguish", "despair"}

calm_words ==
    {"calm", "peaceful", "relaxed", "serene", "tranquil", "zen", "meditative",
     "quiet", "still", "gentle", "soft", "mellow", "soothing", "restful",
     "centered", "balanced", "harmonious", "composed", "placid"}

energetic_words ==
    {"energetic", "pumped", "hyped", "intense", "powerful", "strong", "fierce",
     "aggressive", "wild", "crazy", "insane", "hardcore", "extreme", "explosive",
     "electric", "charged", "amped", "turbo", "high-energy", "adrenaline"}

chill_words ==
    {"chill", "relaxed", "laid-back", "easy", "casual", "cool", "smooth",
     "mellow", "flowing", "cruising", "cozy", "comfortable", "easygoing",
     "lowkey", "ambient", "dreamy", "floating", "drifting"}

\* the separator characters of the texts: neither matches \w
Separators == {" ", "-"}

\* the word atoms the texts are made of
WordAtoms == {"happy", "Sad", "calm", "hyped", "chill", "relaxed", "feel", "good"}

Atoms == WordAtoms \cup Separators

\* str.lower on one atom
LowerAtom(a) == IF a = "Sad" THEN "sad" ELSE a

\* text.lower()
Lower(t) == [i \in DOMAIN t |-> LowerAtom(t[i])] \o <<>>

RECURSIVE FindAllWords(_, _)
\* re.findall(r'\b\w+\b', text): the maximal runs of word characters; cur is the
\* run being read
FindAllWords(t, cur) ==
    IF t = <<>> THEN (IF cur = "" THEN <<>> ELSE <<cur>>)
    ELSE IF Head(t) \in Separators
         THEN (IF cur = "" THEN <<>> ELSE <<cur>>) \o FindAllWords(Tail(t), "")
         ELSE FindAllWords(Tail(t), cur \o Head(t))

\* 'phrase' in text, the phrase given as its atoms
Contains(t, phrase) ==
    \E i \in 1..(Len(t) - Len(phrase) + 1) :
        SubSeq(t, i, i + Len(phrase) - 1) = phrase

\* the number of words of ws that are in the keyword set, two points each
KeywordScore(ws, keywords) == 2 * Cardinality({i \in DOMAIN ws : ws[i] \in keywords})

\* the scores dict after the keyword loop and the context-based scoring
Scores(t) ==
    LET low == Lower(t)
        ws == FindAllWords(low, "")
        Bonus(p, q) == IF Contains(low, p) \/ Contains(low, q) THEN 1 ELSE 0
    IN  [m \in Moods |->
            CASE m = "happy" ->
                    KeywordScore(ws, positive_words)
                    + Bonus(<<"feel", " ", "good">>, <<"feeling", " ", "good">>)
              [] m = "sad" ->
                    KeywordScore(ws, negative_words)
                    + Bonus(<<"feel", " ", "bad">>, <<"feeling", " ", "bad">>)
              [] m = "calm" -> KeywordScore(ws, calm_words)
              [] m = "energetic" ->
                    KeywordScore(ws, energetic_words)
                    + Bonus(<<"need", " ", "energy">>, <<"want", " ", "energy">>)
              [] m = "chill" ->
                    KeywordScore(ws, chill_words)
                    + Bonus(<<"want", " ", "to", " ", "relax">>,
                            <<"need", " ", "to", " ", "chill">>)]

\* max(scores.values())
MaxScore(sc) == CHOOSE v \in {sc[m] : m \in Moods} : \A m \in Moods : sc[m] <= v

\* the loop over scores.items(): the first mood, in insertion order, whose
\* score is the maximum
FirstMax(sc) ==
    LET i == CHOOSE k \in 1..Len(ScoreOrder) :
                 /\ sc[ScoreOrder[k]] = MaxScore(sc)
                 /\ \A j \in 1..(k - 1) : sc[ScoreOrder[j]] # MaxScore(sc)
    IN  ScoreOrder[i]

\* analyze_sentiment(text): 'happy' when no word or phrase scores, else the
\* first mood of the highest score
analyze_sentiment(t) ==
    IF MaxScore(Scores(t)) = 0 THEN "happy" ELSE FirstMax(Scores(t))

\* the texts of at most n atoms
TextsUpTo(n) == UNION {[1..k -> Atoms] : k \in 0..n}

----------------------------------------------------------------------------
(* The session's track cache *)

\* the number of IDs cache_tracks keeps per mood
CacheLimit == 100

\* a dict with no key
EmptyDict == [m \in {} |-> {}]

\* dict.get(key, default)
Get(dict, key, default) == IF key \in DOMAIN dict THEN dict[key] ELSE default

\* get_user_cache_key(): the user named by the token's hash, or "anonymous"
get_user_cache_key(tok) == IF tok # 0 THEN <<"user_", tok>> ELSE <<"anonymous", 0>>

\* the session key get_cached_tracks and cache_tracks read
ReadKey(tok) == <<"track_cache_", get_user_cache_key(tok), "">>

\* the session key cache_tracks writes: the key read with a backtick after it
\* (a string of the module cannot hold the character itself)
WriteKey(tok) == <<"track_cache_", get_user_cache_key(tok), "(backtick)">>

\* get_cached_tracks(mood), as the set of its IDs
get_cached_tracks(sess, tok, mood) == Get(Get(sess, ReadKey(tok), EmptyDict), mood, {})

RECURSIVE KSubsets(_, _)
\* the subsets of S with k elements
KSubsets(S, k) ==
    IF k = 0 THEN {{}}
    ELSE UNION {{D \cup {x} : D \in KSubsets(S \ {x}, k - 1)} : x \in S}

\* a mutant of LastOfSet: no limit
LastOfSetUnlimited(ids, n) == {ids}

\* list(set(ids))[-n:], as the set of its IDs: a set of strings is listed in
\* the order of their hashes, which differs from run to run, so any n of the
\* IDs may be the last n.  The possible results.
LastOfSet(ids, n) ==
    IF Cardinality(ids) <= n THEN {ids}
    ELSE {ids \ D : D \in KSubsets(ids, Cardinality(ids) - n)}

\* cache_tracks(mood, track_ids): the sessions it may leave
cache_tracks(sess, tok, mood, track_ids) ==
    LET user_cache == Get(sess, ReadKey(tok), EmptyDict)
        extended == Get(user_cache, mood, {}) \cup Range(track_ids)
    IN  {(WriteKey(tok) :> ((mood :> kept) @@ user_cache)) @@ sess :
            kept \in LastOfSet(extended, CacheLimit)}

\* the history h after the IDs of ids were added, in order: each ID once, at
\* the place of its latest addition
MoveToEnd(h, ids) ==
    LET new == Range(ids)
    IN  SelectSeq(h, LAMBDA x : x \notin new)
        \o AtIndices(ids, {CHOOSE i \in DOMAIN ids :
                              ids[i] = x /\ \A j \in (i + 1)..Len(ids) : ids[j] # x :
                              x \in new})

\* the history after cache_tracks(mood, track_ids), cut to the latest CacheLimit
Added(h, mood, track_ids) ==
    LET all == MoveToEnd(h[mood], track_ids)
    IN  [h EXCEPT ![mood] = SubSeq(all, Len(all) - Min(Len(all), CacheLimit) + 1, Len(all))]

NoHistory == [m \in Moods |-> <<>>]

----------------------------------------------------------------------------
(* The catalog *)

\* track['popularity'], 35..80 in steps of 5
Popularity(id) == 35 + 5 * (id % 10)

\* whether the track has the fields the display reads (name, artists, album,
\* external_urls): building track_data raises for a track that has not
WellFormed(id) == id % 13 # 0

\* the k-th random.randint(-10, 10) of a run seeded with seed
randint(seed, k) == ((8 * k + 5 * seed) % 21) - 10

\* n consecutive tracks of the catalog from start on, wrapping around
Page(start, n) == [k \in 1..n |-> ((start + k - 2) % NumTracks) + 1] \o <<>>

\* a catalog call that raises, and one that returns items
Raise == [ok |-> FALSE, items |-> <<>>]
Ok(items) == [ok |-> TRUE, items |-> items]

\* a playlist of a playlist search: playlist['tracks']['total'], and what
\* sp.playlist_tracks answers for it
Playlist(total, tracks) == [total |-> total, tracks |-> tracks]

----------------------------------------------------------------------------
(* get_enhanced_tracks_for_mood *)

\* the popularity floors of the filters
TopFloor == 60
SearchFloor == 40
\* unique_tracks[:30] and processed_tracks[:20]
SelectLimit == 30
ReturnLimit == 20

\* Strategy 1: the IDs of the popular top tracks over the three time ranges,
\* list(set(...)), without the cached ones
user_top_tracks(top, cached) ==
    UNION {{t \in Range(top[i].items) : Popularity(t) > TopFloor} :
              i \in {j \in DOMAIN top : top[j].ok}} \ cached

\* a mutant of SearchTracks: one try block around the loop, which ends at
\* the first query that raises
SearchTracksOneTry(search, cached) ==
    Concat([i \in DOMAIN search |->
              IF \A j \in 1..i : search[j].ok
              THEN SelectSeq(search[i].items,
                             LAMBDA t : Popularity(t) > SearchFloor /\ t \notin cached)
              ELSE <<>>])

\* Strategy 2: what the search queries add to all_tracks; a query that raises
\* adds nothing
SearchTracks(search, cached) ==
    Concat([i \in DOMAIN search |->
              IF search[i].ok
              THEN SelectSeq(search[i].items,
                             LAMBDA t : Popularity(t) > SearchFloor /\ t \notin cached)
              ELSE <<>>])

\* Strategy 3: what the recommendations add, one call per seed combination.
\* Both combinations hold a seed exactly when user_top_tracks is not empty.
RecTracks(rec, seeds, cached) ==
    IF seeds = {} THEN <<>>
    ELSE Concat([i \in DOMAIN rec |->
                   IF rec[i].ok
                   THEN SelectSeq(rec[i].items,
                                  LAMBDA t : Popularity(t) > TopFloor /\ t \notin cached)
                   ELSE <<>>])

RECURSIVE PlaylistsOfQuery(_, _)
\* Strategy 4, the playlists of one query: the tracks added and whether the
\* loop ran to its end (ok) or sp.playlist_tracks raised.  ID 0 is an item
\* with no track.
PlaylistsOfQuery(pls, cached) ==
    IF pls = <<>> THEN [ids |-> <<>>, ok |-> TRUE]
    ELSE LET p == Head(pls) IN
         IF p.total = 0 THEN PlaylistsOfQuery(Tail(pls), cached)
         ELSE IF ~p.tracks.ok THEN [ids |-> <<>>, ok |-> FALSE]
         ELSE LET rest == PlaylistsOfQuery(Tail(pls), cached)
              IN  [ids |-> SelectSeq(p.tracks.items,
                                     LAMBDA t : /\ t # 0
                                                /\ Popularity(t) > SearchFloor
                                                /\ t \notin cached) \o rest.ids,
                   ok |-> rest.ok]

RECURSIVE PlaylistTracks(_, _)
\* Strategy 4: what the playlist queries add before the first call that
\* raises; one try block holds the whole strategy
PlaylistTracks(pl, cached) ==
    IF pl = <<>> THEN <<>>
    ELSE IF ~Head(pl).ok THEN <<>>
    ELSE LET here == PlaylistsOfQuery(Head(pl).items, cached)
         IN  here.ids \o (IF here.ok THEN PlaylistTracks(Tail(pl), cached) ELSE <<>>)

\* a mutant of RemoveDuplicates: every track kept
KeepAll(s) == s

\* the seen_ids loop: the first occurrence of each ID, in order
RemoveDuplicates(s) ==
    AtIndices(s, {CHOOSE i \in DOMAIN s : s[i] = x /\ \A j \in 1..(i - 1) : s[j] # x :
                     x \in Range(s)})

\* list.sort(key=..., reverse=True) with the key of s[i] being key[i]: by key,
\* highest first, equal keys in their order in s
SortDescending(s, key) ==
    LET n == Len(s)
        rank == [i \in 1..n |->
                    Cardinality({j \in 1..n : \/ key[j] > key[i]
                                             \/ (key[j] = key[i] /\ j < i)}) + 1] \o <<>>
        at == [p \in 1..n |-> CHOOSE i \in 1..n : rank[i] = p] \o <<>>
    IN  [p \in 1..n |-> s[at[p]]] \o <<>>

\* a mutant of Returned: every processed track returned
ReturnedAll(processed) == processed

\* processed_tracks[:20]
Returned(processed) == Take(processed, ReturnLimit)

\* get_enhanced_tracks_for_mood(user_mood) up to its call of cache_tracks, with
\* the catalog answering as scen says and the jitter drawn from seed: the
\* list returned (tracks), the IDs handed to cache_tracks (track_ids), the
\* merged candidates (unique_tracks), the length of all_tracks (gathered),
\* the IDs get_cached_tracks gave (cached), whether every catalog call raised
\* and the catalog operations called
get_enhanced_tracks_for_mood(cached, scen, seed) ==
    LET seeds == user_top_tracks(scen.top, cached)
        all_tracks == SearchTracks(scen.search, cached)
                      \o RecTracks(scen.rec, seeds, cached)
                      \o PlaylistTracks(scen.pl, cached)
        unique_tracks == RemoveDuplicates(all_tracks)
        key == [i \in DOMAIN unique_tracks |->
                   Popularity(unique_tracks[i]) + randint(seed, i)] \o <<>>
        selected_tracks == Take(SortDescending(unique_tracks, key), SelectLimit)
        processed_tracks == SelectSeq(selected_tracks, WellFormed)
    IN  [tracks |-> Returned(processed_tracks),
         track_ids |-> processed_tracks,
         unique_tracks |-> unique_tracks,
         gathered |-> Len(all_tracks),
         cached |-> cached,
         all_raised |-> /\ \A i \in DOMAIN scen.top : ~scen.top[i].ok
                        /\ \A i \in DOMAIN scen.search : ~scen.search[i].ok
                        /\ ~scen.pl[1].ok,
         calls |-> {"current_user_top_tracks", "search"}
                   \cup (IF seeds # {} THEN {"recommendations"} ELSE {})
                   \cup (IF \E q \in DOMAIN scen.pl :
                              /\ \A r \in 1..(q - 1) : scen.pl[r].ok
                              /\ scen.pl[q].ok
                              /\ \E p \in DOMAIN scen.pl[q].items :
                                     scen.pl[q].items[p].total > 0
                         THEN {"playlist_tracks"} ELSE {})]

----------------------------------------------------------------------------
(* Requests and answers *)

\* a form field, query argument or JSON key that is absent (Python's None)
None == "(None)"

\* not v, for a string or None
Falsy(v) == v \in {None, ""}

RECURSIVE LStrip(_)
\* str.lstrip(): leading spaces dropped
LStrip(t) == IF t # <<>> /\ Head(t) = " " THEN LStrip(Tail(t)) ELSE t

RECURSIVE RStrip(_)
\* str.rstrip(): trailing spaces dropped
RStrip(t) ==
    IF t # <<>> /\ t[Len(t)] = " " THEN RStrip(SubSeq(t, 1, Len(t) - 1)) ELSE t

\* str.strip()
Strip(t) == RStrip(LStrip(t))

\* the result of a selection that did not run
NoSelection ==
    [tracks |-> <<>>, track_ids |-> <<>>, unique_tracks |-> <<>>, gathered |-> 0,
     cached |-> {}, all_raised |-> FALSE, calls |-> {}]

\* a request: mood is the form field of a POST, the query argument of a GET
\* and the JSON key of /create_spotify_playlist; json says whether the body
\* is a JSON object, has_ids whether it has the key track_ids
Request(method, mood, mood_text, json, has_ids, track_ids) ==
    [method |-> method, mood |-> mood, mood_text |-> mood_text,
     json |-> json, has_ids |-> has_ids, track_ids |-> track_ids]

NoRequest == Request("GET", None, <<>>, FALSE, FALSE, <<>>)

\* an answer: the route, the request, the status and what is sent, the mood
\* handed to get_enhanced_tracks_for_mood (None when it was not called), its
\* result, and the catalog operations called
Response(route, req, status, body, user_mood, sel, calls) ==
    [route |-> route, req |-> req, status |-> status, body |-> body,
     user_mood |-> user_mood, sel |-> sel, calls |-> calls]

\* sp_oauth.validate_token(cache_handler.get_cached_token())
validate_token(tok) == tok # 0

----------------------------------------------------------------------------
(* The handlers *)

\* home()
Home ==
    /\ resp' = IF validate_token(token)
               THEN Response("/", NoRequest, 200, "index.html", None, NoSelection, {})
               ELSE Response("/", NoRequest, 302, "authorize", None, NoSelection, {})
    /\ UNCHANGED <<token, session, added, inText, outMood, catalog>>

\* callback(): the token the identity provider hands out is cached
Callback ==
    /\ token' = 1
    /\ resp' = Response("/callback", NoRequest, 302, "home", None, NoSelection, {})
    /\ UNCHANGED <<session, added, inText, outMood, catalog>>

\* logout(): session.clear()
Logout ==
    /\ token' = 0
    /\ session' = EmptyDict
    /\ resp' = Response("/logout", NoRequest, 302, "home", None, NoSelection, {})
    /\ UNCHANGED <<added, inText, outMood, catalog>>

\* a mutant of ResolveMood: the selection before the text
ResolveMoodSelectionFirst(req) ==
    IF req.method = "POST"
    THEN IF ~Falsy(req.mood) THEN [error |-> "", user_mood |-> req.mood]
         ELSE IF Strip(req.mood_text) # <<>>
         THEN [error |-> "", user_mood |-> analyze_sentiment(Strip(req.mood_text))]
         ELSE [error |-> "Please select a mood or describe your mood.",
               user_mood |-> None]
    ELSE IF Falsy(req.mood)
         THEN [error |-> "Mood parameter missing.", user_mood |-> None]
         ELSE [error |-> "", user_mood |-> req.mood]

\* generate_playlist(), the branch on request.method: the mood of the
\* request, or the 400 answer
ResolveMood(req) ==
    IF req.method = "POST"
    THEN IF Strip(req.mood_text) # <<>>
         THEN [error |-> "", user_mood |-> analyze_sentiment(Strip(req.mood_text))]
         ELSE IF Falsy(req.mood)
         THEN [error |-> "Please select a mood or describe your mood.",
               user_mood |-> None]
         ELSE [error |-> "", user_mood |-> req.mood]
    ELSE IF Falsy(req.mood)
         THEN [error |-> "Mood parameter missing.", user_mood |-> None]
         ELSE [error |-> "", user_mood |-> req.mood]

\* a mutant of IsValidMood: any mood passes
IsValidMoodAny(user_mood) == TRUE

\* user_mood in ['happy', 'energetic', 'chill', 'sad', 'calm']
IsValidMood(user_mood) == user_mood \in Moods

\* a mutant of PlaylistAnswer: the page rendered whatever the tracks
PlaylistAnswerAlways(tracks) == [status |-> 200, body |-> "playlist.html"]

\* generate_playlist() after the selection: the 500 answer for no tracks,
\* else the page (the same for an AJAX request)
PlaylistAnswer(tracks) ==
    IF tracks = <<>>
    THEN [status |-> 500,
          body |-> "Sorry, couldn't generate a playlist at this time. Please try again."]
    ELSE [status |-> 200, body |-> "playlist.html"]

\* generate_playlist(): the catalog answers as scen says, the jitter is drawn
\* from seed
generate_playlist(req, scen, seed) ==
    LET r == ResolveMood(req) IN
    /\ IF ~validate_token(token)
       THEN /\ resp' = Response("/generate_playlist", req, 302, "authorize",
                                None, NoSelection, {})
            /\ UNCHANGED session
       ELSE IF r.error # ""
       THEN /\ resp' = Response("/generate_playlist", req, 400, r.error,
                                None, NoSelection, {})
            /\ UNCHANGED session
       ELSE IF ~IsValidMood(r.user_mood)
       THEN /\ resp' = Response("/generate_playlist", req, 400, "Invalid mood",
                                None, NoSelection, {})
            /\ UNCHANGED session
       ELSE \E sel \in {get_enhanced_tracks_for_mood(
                           get_cached_tracks(session, token, r.user_mood), scen, seed)} :
            LET ans == PlaylistAnswer(sel.tracks)
            IN  /\ session' \in cache_tracks(session, token, r.user_mood, sel.track_ids)
                /\ resp' = Response("/generate_playlist", req, ans.status, ans.body,
                                    r.user_mood, sel, sel.calls)
    /\ UNCHANGED <<token, added, inText, outMood>>

\* a request to /generate_playlist
GeneratePlaylist(req, scen, seed) ==
    /\ generate_playlist(req, scen, seed)
    /\ UNCHANGED catalog

\* a request to /generate_playlist, the catalog's answers kept when the
\* selection ran
ObservedSelection(req, scen, seed) ==
    /\ generate_playlist(req, scen, seed)
    /\ catalog' = IF resp'.user_mood # None THEN scen ELSE catalog

\* a mutant of MissingInput: the track IDs not looked at
MissingInputMoodOnly(mood, track_ids) == Falsy(mood)

\* not mood or not track_ids
MissingInput(mood, track_ids) == Falsy(mood) \/ track_ids = <<>>

\* create_spotify_playlist(): cat says which of sp.current_user,
\* sp.user_playlist_create and sp.playlist_add_items succeed
CreateSpotifyPlaylist(req, cat) ==
    LET track_ids == IF req.has_ids THEN req.track_ids ELSE <<>>
        Answer(status, body, calls) ==
            Response("/create_spotify_playlist", req, status, body, None,
                     NoSelection, calls)
    IN
    /\ resp' =
         IF ~validate_token(token) THEN Answer(401, "Not authenticated", {})
         ELSE IF ~req.json THEN Answer(500, "error", {})
         ELSE IF MissingInput(req.mood, track_ids)
         THEN Answer(400, "Missing mood or track_ids", {})
         ELSE IF ~cat.current_user THEN Answer(500, "error", {"current_user"})
         ELSE IF ~cat.user_playlist_create
         THEN Answer(500, "error", {"current_user", "user_playlist_create"})
         ELSE IF ~cat.playlist_add_items
         THEN Answer(500, "error",
                     {"current_user", "user_playlist_create", "playlist_add_items"})
         ELSE Answer(200, "success",
                     {"current_user", "user_playlist_create", "playlist_add_items"})
    /\ UNCHANGED <<token, session, added, inText, outMood, catalog>>

----------------------------------------------------------------------------
(* The inputs *)

\* what sp.current_user_top_tracks answers for the three time ranges: every
\* call raising; popular tracks (6..9) with one call raising; no popular track
TopScens ==
    {<<Raise, Raise, Raise>>,
     <<Ok(Page(5, 6)), Raise, Ok(<<>>)>>,
     <<Ok(Page(1, 5)), Ok(<<>>), Ok(Page(10, 3))>>}

\* what sp.search(type='track') answers for the five queries: every call
\* raising; a few tracks, some twice; the whole catalog, many tracks twice
SearchScens ==
    {<<Raise, Raise, Raise, Raise, Raise>>,
     <<Ok(Page(1, 4)), Raise, Ok(<<>>), Ok(Page(3, 4)), Raise>>,
     <<Ok(Page(1, 20)), Ok(Page(11, 20)), Ok(Page(21, 20)), Raise, Ok(Page(31, 20))>>}

\* what sp.recommendations answers for the two seed combinations
RecScens ==
    {<<Raise, Raise>>,
     <<Ok(Page(6, 4)), Raise>>,
     <<Ok(Page(26, 14)), Ok(Page(6, 20))>>}

\* what sp.search(type='playlist') answers for the three queries, each
\* playlist with what sp.playlist_tracks answers for it: the first search
\* raising; a playlist read, an empty one skipped, then a read raising; every
\* call answering
PlaylistScens ==
    {<<Raise, Ok(<<>>), Ok(<<>>)>>,
     <<Ok(<<Playlist(5, Ok(<<36, 0, 37, 38>>)), Playlist(0, Raise), Playlist(3, Raise)>>),
       Ok(<<Playlist(2, Ok(Page(16, 4)))>>),
       Raise>>,
     <<Ok(<<Playlist(10, Ok(Page(14, 10)))>>),
       Ok(<<>>),
       Ok(<<Playlist(4, Ok(Page(22, 4))), Playlist(7, Ok(Page(14, 7)))>>)>>}

\* the catalog's answers during one selection
Scenarios == [top : TopScens, search : SearchScens, rec : RecScens, pl : PlaylistScens]

\* no selection observed yet: no call, no answer
NoCatalog == [top |-> <<>>, search |-> <<>>, rec |-> <<>>, pl |-> <<>>]

\* every catalog call raising
AllRaise ==
    [top |-> <<Raise, Raise, Raise>>,
     search |-> <<Raise, Raise, Raise, Raise, Raise>>,
     rec |-> <<Raise, Raise>>,
     pl |-> <<Raise, Ok(<<>>), Ok(<<>>)>>]

\* some calls raising, some answering
SomeRaise ==
    [top |-> <<Ok(Page(5, 6)), Raise, Ok(<<>>)>>,
     search |-> <<Ok(Page(1, 4)), Raise, Ok(<<>>), Ok(Page(3, 4)), Raise>>,
     rec |-> <<Ok(Page(6, 4)), Raise>>,
     pl |-> <<Raise, Ok(<<>>), Ok(<<>>)>>]

\* the values of the mood field: absent, empty, the five labels, another word
FormMoods == Moods \cup {None, "", "angry"}

\* the values of the mood_text field
FormTexts == {<<>>, <<" ">>, <<" ", "Sad", " ">>, <<"feel", "-", "good">>}

\* the /generate_playlist requests: a GET carries no form
FormRequests ==
    {Request("POST", mood, text, FALSE, FALSE, <<>>) :
        mood \in FormMoods, text \in FormTexts}
    \cup {Request("GET", mood, <<>>, FALSE, FALSE, <<>>) : mood \in FormMoods}

\* the /generate_playlist requests that select a mood by its label
SelectRequests ==
    {Request("GET", mood, <<>>, FALSE, FALSE, <<>>) : mood \in {"happy", "sad"}}

\* the /create_spotify_playlist requests
CreateRequests ==
    {Request("POST", mood, <<>>, json, has_ids, ids) :
        mood \in {None, "", "chill"}, json \in BOOLEAN, has_ids \in BOOLEAN,
        ids \in {<<>>, <<3, 7>>}}

\* which catalog operations of /create_spotify_playlist succeed: all of them,
\* or all before the first that raises
CreateCatalogs ==
    {[current_user |-> a, user_playlist_create |-> b, playlist_add_items |-> c] :
        <<a, b, c>> \in {<<TRUE, TRUE, TRUE>>, <<TRUE, TRUE, FALSE>>,
                         <<TRUE, FALSE, FALSE>>, <<FALSE, FALSE, FALSE>>}}

----------------------------------------------------------------------------
(* The application: every route, the forms in all their variety *)

Init ==
    /\ token = 0
    /\ session = EmptyDict
    /\ resp = Response("", NoRequest, 0, "", None, NoSelection, {})
    /\ added = NoHistory
    /\ inText = <<>>
    /\ outMood = ""
    /\ catalog = NoCatalog

Next ==
    \/ Home
    \/ Callback
    \/ Logout
    \/ \E req \in FormRequests, scen \in {AllRaise, SomeRaise} :
           GeneratePlaylist(req, scen, 0)
    \/ \E req \in CreateRequests, cat \in CreateCatalogs : CreateSpotifyPlaylist(req, cat)

Spec == Init /\ [][Next]_vars

----------------------------------------------------------------------------
(* The selection: one user, the catalog in all its variety *)

NextSelect ==
    \/ Callback
    \/ \E req \in SelectRequests, scen \in Scenarios, seed \in 0..MaxSeed :
           GeneratePlaylist(req, scen, seed)

SpecSelect == Init /\ [][NextSelect]_vars

----------------------------------------------------------------------------
(* The selection under failures: the catalog's answers kept beside the result *)

NextFailure ==
    \/ Callback
    \/ \E req \in SelectRequests, scen \in Scenarios : ObservedSelection(req, scen, 0)

SpecFailure == Init /\ [][NextFailure]_vars

----------------------------------------------------------------------------
(* The analyzer alone: every text of at most MaxAtoms atoms *)

InitSentiment ==
    /\ token = 0
    /\ session = EmptyDict
    /\ resp = Response("", NoRequest, 0, "", None, NoSelection, {})
    /\ added = NoHistory
    /\ inText \in TextsUpTo(MaxAtoms)
    /\ outMood = ""
    /\ catalog = NoCatalog

\* sentiment_analyzer.analyze_sentiment(inText)
Analyze ==
    /\ outMood = ""
    /\ outMood' = analyze_sentiment(inText)
    /\ UNCHANGED <<token, session, resp, added, inText, catalog>>

NextSentiment == Analyze

SpecSentiment == InitSentiment /\ [][NextSentiment]_vars

----------------------------------------------------------------------------
(* The track cache alone: cache_tracks called with lists of any length *)

\* the IDs a, a + 1, ... : n of them
IdRun(a, n) == [k \in 1..n |-> a + k - 1] \o <<>>

\* the lists handed to cache_tracks: none, one ID, as many as the cache
\* holds, one more than it holds, the one ID beyond them
CacheInputs ==
    {<<>>, IdRun(1, 1), IdRun(1, CacheLimit), IdRun(1, CacheLimit + 1),
     IdRun(CacheLimit + 1, 1)}

\* cache_tracks(mood, track_ids), called on its own
CacheTracksCall(mood, track_ids) ==
    /\ added' = Added(added, mood, track_ids)
    /\ resp' = Response("cache_tracks", NoRequest, 0, "", mood,
                        [NoSelection EXCEPT !.track_ids = track_ids], {})
    /\ session' \in cache_tracks(session, token, mood, track_ids)
    /\ UNCHANGED <<token, inText, outMood, catalog>>

NextCache ==
    \E mood \in {"happy", "sad"}, track_ids \in CacheInputs :
        CacheTracksCall(mood, track_ids)

SpecCache == Init /\ [][NextCache]_vars

----------------------------------------------------------------------------
(* Properties *)

\* the last request was a /generate_playlist request with a valid token
Generated == resp.route = "/generate_playlist" /\ resp.status # 302

\* the last request was a /generate_playlist request that ran the selection
Selected == Generated /\ resp.user_mood # None

\* the entry cache_tracks stored for the mood under the key it writes
Stored(mood) == Get(Get(session, WriteKey(token), EmptyDict), mood, {})

\* C1, as claimed: a POST /generate_playlist request with a valid token that
\* carries one of the five mood labels hands that label to the selection,
\* whatever its mood_text.
C1_SelectionAlwaysWins ==
    (Generated /\ resp.req.method = "POST" /\ resp.req.mood \in Moods)
        => resp.user_mood = resp.req.mood

\* C1, amended: such a request hands the label to the selection when its
\* mood_text is empty or only spaces, and the mood analyze_sentiment finds in
\* the stripped mood_text otherwise.
C1_TextWinsOverSelection ==
    (Generated /\ resp.req.method = "POST" /\ resp.req.mood \in Moods)
        => resp.user_mood = IF Strip(resp.req.mood_text) = <<>>
                            THEN resp.req.mood
                            ELSE analyze_sentiment(Strip(resp.req.mood_text))

\* a request with a label and a text that scores another mood was answered
\* with the mood of the text
C1_Witness ==
    /\ Generated
    /\ resp.req.method = "POST"
    /\ resp.req.mood = "happy"
    /\ Strip(resp.req.mood_text) = <<"Sad">>
    /\ resp.user_mood = "sad"

\* C2, as claimed: analyze_sentiment returns the mood whose score is strictly
\* above every other, and happy when the highest score is shared or is zero.
C2_HappyOnTie ==
    outMood # "" =>
        LET sc == Scores(inText)
            top == {m \in Moods : sc[m] = MaxScore(sc)}
        IN  IF MaxScore(sc) = 0 \/ Cardinality(top) >= 2
            THEN outMood = "happy"
            ELSE outMood \in top

\* C3, as claimed: after a selection for a mood returned a list, the entry
\* get_cached_tracks reads for that mood under the same token holds every ID of
\* the list (on which the exclusion at the next selection rests).
C3_RecencyHoldsReturned ==
    (Selected /\ resp.status = 200)
        => Range(resp.sel.tracks) \subseteq get_cached_tracks(session, token, resp.user_mood)

\* C4: every entry stored in the session's track cache, under whatever key and
\* mood, holds at most 100 IDs.
C4_AtMostHundred ==
    \A key \in DOMAIN session : \A mood \in DOMAIN session[key] :
        Cardinality(session[key][mood]) <= 100

\* cache_tracks was handed more than 100 IDs and stored 100 of them
C4_Witness ==
    /\ resp.route = "cache_tracks"
    /\ Cardinality(Range(resp.sel.track_ids)) > 100
    /\ Cardinality(Stored(resp.user_mood)) = 100

\* C5, as claimed: the entry stored for a mood is exactly the 100 most
\* recently added distinct IDs (all of them while they are at most 100).
C5_OldestEvictedFirst ==
    \A mood \in Moods : Stored(mood) = Range(added[mood])

\* C6: a selection in which every catalog call raised, or whose merged
\* candidates are none, is answered with the 500 message; no 200 answer
\* carries an empty list.
C6_NoEmptySuccess ==
    Selected =>
        /\ (resp.sel.all_raised \/ resp.sel.unique_tracks = <<>>)
               => /\ resp.sel.tracks = <<>>
                  /\ resp.status = 500
                  /\ resp.body = "Sorry, couldn't generate a playlist at this time. Please try again."
        /\ resp.status = 200 => resp.sel.tracks # <<>>

\* every catalog call of a selection raised and the answer is the 500
C6_Witness == Selected /\ resp.sel.all_raised /\ resp.status = 500

\* C7: an authenticated POST /create_spotify_playlist whose JSON body has no
\* or an empty track_ids, or no or an empty mood, is answered 400 and calls no
\* catalog operation.
C7_MissingInputIs400 ==
    ( /\ resp.route = "/create_spotify_playlist"
      /\ resp.status # 401
      /\ resp.req.json
      /\ \/ Falsy(resp.req.mood)
         \/ ~resp.req.has_ids
         \/ resp.req.track_ids = <<>> )
        => resp.status = 400 /\ resp.calls = {}

\* a body with a mood and an empty track_ids was answered 400
C7_Witness ==
    /\ resp.route = "/create_spotify_playlist"
    /\ resp.req.json
    /\ resp.req.mood = "chill"
    /\ resp.req.has_ids
    /\ resp.req.track_ids = <<>>
    /\ resp.status = 400

\* C8: the IDs of the list a selection returns are pairwise distinct.
C8_DistinctIds ==
    Selected =>
        \A i, j \in DOMAIN resp.sel.tracks :
            i # j => resp.sel.tracks[i] # resp.sel.tracks[j]

\* a selection that gathered tracks more than once returned a list
C8_Witness ==
    /\ Selected
    /\ resp.sel.gathered > Len(resp.sel.unique_tracks)
    /\ Len(resp.sel.tracks) > 1

\* C9: the list a selection returns has at most 20 tracks.
C9_AtMostTwenty == Selected => Len(resp.sel.tracks) <= 20

\* a selection with more than 20 processed tracks returned 20
C9_Witness ==
    /\ Selected
    /\ Len(resp.sel.track_ids) > 20
    /\ Len(resp.sel.tracks) = 20

\* analyze_sentiment returns one of the five labels for every text of at most
\* MaxAtoms atoms
EveryTextScoresAMood == \A t \in TextsUpTo(MaxAtoms) : analyze_sentiment(t) \in Moods

\* C10: a /generate_playlist request with a valid token either hands the
\* selection one of the five labels, or is answered 400 with no catalog call;
\* a request with neither a mood nor a mood_text that is not blank is answered
\* 400; and analyze_sentiment returns one of the five labels.
C10_MoodInClosedSet ==
    /\ Generated =>
        /\ \/ resp.user_mood \in Moods
           \/ resp.user_mood = None /\ resp.status = 400 /\ resp.calls = {}
        /\ (Falsy(resp.req.mood) /\ Strip(resp.req.mood_text) = <<>>)
               => resp.status = 400
        /\ (resp.req.method = "POST" /\ Strip(resp.req.mood_text) # <<>>)
               => resp.user_mood = analyze_sentiment(Strip(resp.req.mood_text))
    /\ EveryTextScoresAMood

\* a request whose mood is no label was answered 400
C10_Witness ==
    /\ Generated
    /\ resp.req.mood = "angry"
    /\ Strip(resp.req.mood_text) = <<>>
    /\ resp.status = 400
    /\ resp.calls = {}

\* the last request was a selection whose catalog answers were kept
Observed == Selected /\ catalog # NoCatalog

\* a catalog call of the answers raised
SomeRaised(answers) == \E i \in DOMAIN answers : ~answers[i].ok

\* the tracks of the calls that answered which pass the popularity floor and
\* are not among the cached
Eligible(answers, floor, cached) ==
    UNION {{t \in Range(answers[i].items) : Popularity(t) > floor /\ t \notin cached} :
              i \in {j \in DOMAIN answers : answers[j].ok}}

\* the playlists the playlist searches that answered found, with tracks
FoundPlaylists(pl) ==
    UNION {{p \in Range(pl[q].items) : p.total > 0} : q \in {r \in DOMAIN pl : pl[r].ok}}

\* a call of the playlist strategy raised, or would have
PlaylistsRaised(pl) == SomeRaised(pl) \/ \E p \in FoundPlaylists(pl) : ~p.tracks.ok

\* the tracks of the playlist reads that answered which pass the floor and are
\* not among the cached
PlaylistEligible(pl, cached) ==
    UNION {{t \in Range(p.tracks.items) :
               t # 0 /\ Popularity(t) > SearchFloor /\ t \notin cached} :
              p \in {f \in FoundPlaylists(pl) : f.tracks.ok}}

\* C11: when catalog calls raise during a selection, the selection still
\* goes on.  The track search is called, and the recommendations exactly when
\* the top-track calls that answered gave a seed.  Every eligible track of
\* every track search and recommendation call that answered, and of the
\* playlists when none of their calls raised, is among the merged candidates;
\* the candidates and the result hold nothing else; and the result is empty
\* only when every candidate among the first 30 is one the display cannot
\* process.
C11_FailureDoesNotAbort ==
    (Observed /\ (SomeRaised(catalog.top) \/ SomeRaised(catalog.search)
                    \/ SomeRaised(catalog.rec) \/ PlaylistsRaised(catalog.pl)))
    => LET sel == resp.sel
           seeds == Eligible(catalog.top, TopFloor, sel.cached)
           from_search == Eligible(catalog.search, SearchFloor, sel.cached)
           from_rec == IF seeds = {} THEN {}
                       ELSE Eligible(catalog.rec, TopFloor, sel.cached)
           from_playlists == PlaylistEligible(catalog.pl, sel.cached)
           unique == Range(sel.unique_tracks)
       IN  /\ "search" \in sel.calls
           /\ "recommendations" \in sel.calls <=> seeds # {}
           /\ from_search \subseteq unique
           /\ from_rec \subseteq unique
           /\ ~PlaylistsRaised(catalog.pl) => from_playlists \subseteq unique
           /\ unique \subseteq from_search \cup from_rec \cup from_playlists
           /\ Range(sel.tracks) \subseteq unique
           /\ sel.tracks = <<>> =>
                  Cardinality({t \in unique : ~WellFormed(t)})
                      >= Min(SelectLimit, Len(sel.unique_tracks))

\* every top-track call and the first playlist search raised, some track
\* searches raised, and the tracks of the one that answered were returned
C11_Witness ==
    /\ Observed
    /\ \A i \in DOMAIN catalog.top : ~catalog.top[i].ok
    /\ ~catalog.pl[1].ok
    /\ SomeRaised(catalog.search)
    /\ resp.status = 200
    /\ Range(resp.sel.tracks) \subseteq Eligible(catalog.search, SearchFloor, resp.sel.cached)
    /\ resp.sel.tracks # <<>>

\* C12, as claimed: the IDs a selection hands to cache_tracks are the IDs of
\* the tracks it returns.
C12_CachedAreReturned ==
    Selected => Range(resp.sel.track_ids) = Range(resp.sel.tracks)

====
